---- MODULE Spec2Model ----
(***************************************************************************)
(* Model of floating.c: the binary32 / binary16 formatters floating_info   *)
(* and ieee_16_info, and the binary32 -> binary16 converter as_ieee_16.    *)
(*                                                                         *)
(* A 32-bit word (f.as_int) is held as two 16-bit halves [hi, lo], because *)
(* the model checker's integers are 32-bit signed; every operation on the  *)
(* word is computed on the halves with the width of the C operation.       *)
(* Characters are one-character strings, NUL is the terminator, and a      *)
(* buffer is a function from byte index to character.                      *)
(***************************************************************************)
EXTENDS Integers, Sequences, FiniteSets, TLC

(***************************************************************************)
(* Bounds of the model.                                                    *)
(***************************************************************************)
\* significands are built from bit patterns of at most MaxBits bits, shifted
MaxBits == 3
\* buffer lengths passed to the formatters: 1..MaxBufLen
MaxBufLen == 36

(***************************************************************************)
(* C integer operators.                                                    *)
(***************************************************************************)
Pow2(n) == 2 ^ n

\* x >> n on a non-negative int
Shr(x, n) == x \div Pow2(n)

\* x << n on a non-negative int whose result fits
Shl(x, n) == x * Pow2(n)

RECURSIVE BitAnd(_, _)
\* a & b on non-negative ints
BitAnd(a, b) ==
  IF a = 0 \/ b = 0 THEN 0
  ELSE (a % 2) * (b % 2) + 2 * BitAnd(a \div 2, b \div 2)

RECURSIVE BitOr(_, _)
\* a | b on non-negative ints
BitOr(a, b) ==
  IF a = 0 THEN b
  ELSE IF b = 0 THEN a
  ELSE (IF a % 2 = 1 \/ b % 2 = 1 THEN 1 ELSE 0) + 2 * BitOr(a \div 2, b \div 2)

\* (x & (1 << k)) != 0 on a non-negative int: bit k of x is set
TestBit(x, k) == Shr(x, k) % 2 = 1

\* the conversion of an int return value to uint16_t
ToUint16(x) == x % 65536

(***************************************************************************)
(* union floating: the 32-bit word as_int, as two 16-bit halves.           *)
(***************************************************************************)
\* the word with sign bit s, exponent field e and significand m
floating(s, e, m) ==
  [hi |-> s * 32768 + e * 128 + (m \div 65536), lo |-> m % 65536]

\* f.as_int >> 31
sign_of(f) == Shr(f.hi, 15)

\* f.as_int << 1 >> 24, in 32 bits unsigned: the shift left drops the sign bit
exponent_field(f) == Shr((f.hi * 2 + Shr(f.lo, 15)) % 65536, 8)

\* f.as_int & 0x7FFFFF
significand_of(f) == BitAnd(f.hi, 127) * 65536 + f.lo

(***************************************************************************)
(* as_ieee_16                                                              *)
(***************************************************************************)
\* a variant with the boundary one exponent too high: -24 rounds to zero too
round_to_zero_below_23(expo) == expo < -23

\* the test for rounding to zero: expo < -24
round_to_zero(expo) == expo < -24

\* the test for rounding to infinity: expo_16 > 31
round_to_infinity(expo_16) == expo_16 > 31

\* the branch expo_16 <= 0: the result is a binary16 subnormal
as_ieee_16_subnormal(sign, expo_16, significand0) ==
  LET shift       == 14 - expo_16
      significand == BitOr(significand0, 8388608)
      sig_16      == Shr(significand, shift)
      round_bit   == BitAnd(Shr(significand, shift - 1), 1)
      sticky_bit  == BitAnd(significand, Shr(Shl(1, shift) - 1, 1))
  IN  IF round_bit = 0
      THEN BitOr(Shl(sign, 15), sig_16)
      ELSE IF sticky_bit # 0
           THEN BitOr(Shl(sign, 15), sig_16 + 1)
           ELSE IF BitAnd(sig_16, 1) # 0
                THEN BitOr(Shl(sign, 15), sig_16 + 1)
                ELSE BitOr(Shl(sign, 15), sig_16)

\* a variant that rounds every tie up, whatever the candidate's last bit
as_ieee_16_normal_ties_up(sign, expo_16, significand) ==
  LET sig_16     == Shr(significand, 13)
      round_bit  == BitAnd(Shr(significand, 12), 1)
  IN  IF round_bit = 0
      THEN BitOr(BitOr(Shl(sign, 15), Shl(expo_16, 10)), sig_16)
      ELSE BitOr(BitOr(Shl(sign, 15), Shl(expo_16, 10)), sig_16 + 1)

\* a variant that keeps 11 bits of the significand as the candidate
as_ieee_16_normal_shift_12(sign, expo_16, significand) ==
  LET sig_16     == Shr(significand, 12)
      round_bit  == BitAnd(Shr(significand, 12), 1)
  IN  IF round_bit = 0
      THEN BitOr(BitOr(Shl(sign, 15), Shl(expo_16, 10)), sig_16)
      ELSE BitOr(BitOr(Shl(sign, 15), Shl(expo_16, 10)), sig_16 + 1)

\* the branch expo_16 > 0: the result has exponent field expo_16
as_ieee_16_normal(sign, expo_16, significand) ==
  LET sig_16     == Shr(significand, 13)
      round_bit  == BitAnd(Shr(significand, 12), 1)
      sticky_bit == BitAnd(significand, 4095)
  IN  IF round_bit = 0
      THEN BitOr(BitOr(Shl(sign, 15), Shl(expo_16, 10)), sig_16)
      ELSE IF sticky_bit # 0
           THEN BitOr(BitOr(Shl(sign, 15), Shl(expo_16, 10)), sig_16 + 1)
           ELSE IF BitAnd(sig_16, 1) # 0
                THEN BitOr(BitOr(Shl(sign, 15), Shl(expo_16, 10)), sig_16 + 1)
                ELSE BitOr(BitOr(Shl(sign, 15), Shl(expo_16, 10)), sig_16)

as_ieee_16(f) ==
  LET sign        == sign_of(f)
      expo        == exponent_field(f) - 127
      expo_16     == expo + 15
      significand == significand_of(f)
  IN  ToUint16(
        IF expo = 128
        THEN IF significand = 0
             THEN BitOr(Shl(sign, 15), 31744)
             ELSE BitOr(Shl(sign, 15), 1)
        ELSE IF expo = -127 /\ significand = 0
        THEN Shl(sign, 15)
        ELSE IF round_to_zero(expo)
        THEN Shl(sign, 15)
        ELSE IF round_to_infinity(expo_16)
        THEN BitOr(Shl(sign, 15), 31744)
        ELSE IF expo_16 <= 0
        THEN as_ieee_16_subnormal(sign, expo_16, significand)
        ELSE as_ieee_16_normal(sign, expo_16, significand))

(***************************************************************************)
(* Characters, strings and snprintf.                                       *)
(***************************************************************************)
NUL == "NUL"

\* what a byte of the caller's buffer may hold before the call
Fills == {"?", NUL}

DigitChar(d) == <<"0", "1", "2", "3", "4", "5", "6", "7", "8", "9">>[d + 1]

RECURSIVE Digits(_)
\* the decimal digits of n >= 0, most significant first
Digits(n) == IF n < 10 THEN <<DigitChar(n)>> ELSE Append(Digits(n \div 10), DigitChar(n % 10))

\* the conversion %d
FormatD(n) == IF n < 0 THEN <<"-">> \o Digits(-n) ELSE Digits(n)

\* a store of the characters chars at buf[at], buf[at+1], ...
St(at, chars) == [at |-> at, chars |-> chars]

Min(a, b) == IF a < b THEN a ELSE b

\* snprintf(&buf[at], n, ...) with the formatted text given: at most n - 1
\* characters of it, then the terminator; nothing when n = 0
snprintf(at, n, text) ==
  IF n = 0 THEN <<>>
  ELSE <<St(at, Append(SubSeq(text, 1, Min(n - 1, Len(text))), NUL))>>

\* a variant that fills mantissa from the least significant bit
mantissa_bits_reversed(significand, n) ==
  [i \in 1..n |-> IF TestBit(significand, i - 1) THEN "1" ELSE "0"]

\* the loops that fill mantissa[0..n-1]: mantissa[i] is '1' when
\* significand & (1 << (n-1-i)) is not 0
mantissa_bits(significand, n) ==
  [i \in 1..n |-> IF TestBit(significand, n - i) THEN "1" ELSE "0"]

(***************************************************************************)
(* floating_info: the stores it makes into buf, in order.                  *)
(***************************************************************************)
floating_info(f, buflen) ==
  LET sign        == sign_of(f)
      exponent    == exponent_field(f) - 127
      significand == significand_of(f)
      mantissa    == mantissa_bits(significand, 23)
  IN  <<St(buflen - 1, <<NUL>>)>> \o
      ( IF exponent = -127 /\ significand = 0
        THEN IF sign = 0 THEN snprintf(0, buflen, <<"+", "0">>)
                         ELSE snprintf(0, buflen, <<"-", "0">>)
        ELSE IF exponent = 128
        THEN IF significand = 0
             THEN IF sign = 0 THEN snprintf(0, buflen, <<"+", "I", "N", "F">>)
                              ELSE snprintf(0, buflen, <<"-", "I", "N", "F">>)
             ELSE snprintf(0, buflen, <<"N", "a", "N">>)
        ELSE IF exponent = -127
        THEN ( IF sign = 0
               THEN snprintf(0, buflen,
                      <<"+", "0", ".">> \o mantissa \o <<" ", "2", "^">> \o FormatD(-126))
               ELSE snprintf(0, buflen,
                      <<"-", "0", ".">> \o mantissa \o <<" ", "2", "^">> \o FormatD(-126)) )
             \o <<St(1, <<"0">>), St(2, <<".">>)>>
        ELSE IF sign = 0
             THEN snprintf(0, buflen,
                    <<"+", "1", ".">> \o mantissa \o <<" ", "2", "^">> \o FormatD(exponent))
             ELSE snprintf(0, buflen,
                    <<"-", "1", ".">> \o mantissa \o <<" ", "2", "^">> \o FormatD(exponent)) )

(***************************************************************************)
(* ieee_16_info: the stores it makes into buf, in order.                   *)
(***************************************************************************)
ieee_16_info(f, buflen) ==
  LET sign        == Shr(f, 15)
      exponent    == Shr(BitAnd(f, 31744), 10) - 15
      significand == BitAnd(f, 1023)
      mantissa    == mantissa_bits(significand, 10)
  IN  <<St(buflen - 1, <<NUL>>)>> \o
      ( IF exponent = -15 /\ significand = 0
        THEN IF sign = 0 THEN snprintf(0, buflen, <<"+", "0">>)
                         ELSE snprintf(0, buflen, <<"-", "0">>)
        ELSE IF exponent = 16
        THEN IF significand = 0
             THEN IF sign = 0 THEN snprintf(0, buflen, <<"+", "I", "N", "F">>)
                              ELSE snprintf(0, buflen, <<"-", "I", "N", "F">>)
             ELSE snprintf(0, buflen, <<"N", "a", "N">>)
        ELSE IF exponent = -15
        THEN <<St(0, IF sign = 0 THEN <<"+">> ELSE <<"-">>), St(1, <<"0">>), St(2, <<".">>)>>
             \o snprintf(3, buflen, mantissa \o <<" ", "2", "^">> \o FormatD(-14))
        ELSE <<St(0, IF sign = 0 THEN <<"+">> ELSE <<"-">>), St(1, <<"1">>), St(2, <<".">>)>>
             \o snprintf(3, buflen, mantissa \o <<" ", "2", "^">> \o FormatD(exponent)) )

(***************************************************************************)
(* Memory: the caller's buffer is bytes 0..buflen-1; the bytes after it    *)
(* are kept so that a store past the buffer is seen.                       *)
(***************************************************************************)
Mem == 0..(MaxBufLen + 2)

\* the bytes a store writes
Range(st) == st.at..(st.at + Len(st.chars) - 1)

\* memory after one store
Store(mem, st) ==
  [i \in DOMAIN mem |-> IF i \in Range(st) THEN st.chars[i - st.at + 1] ELSE mem[i]]

RECURSIVE ApplyFrom(_, _, _)
ApplyFrom(mem, stores, k) ==
  IF k > Len(stores) THEN mem
  ELSE ApplyFrom(Store(mem, stores[k]), stores, k + 1)

\* memory after the stores, made in order
Apply(mem, stores) == ApplyFrom(mem, stores, 1)

\* the bytes the stores write
Stored(stores) == UNION {Range(stores[k]) : k \in 1..Len(stores)}

(***************************************************************************)
(* The inputs the calls are made with.                                     *)
(***************************************************************************)
\* 23-bit significands: every pattern of MaxBits bits at every position, and
\* every run of ones
Significands ==
  {(a * Pow2(k)) % 8388608 : a \in 0..(Pow2(MaxBits) - 1), k \in 0..22}
    \cup UNION {{Pow2(j) - Pow2(i) : i \in 0..(j - 1)} : j \in 1..23}

Signs == 0..1

Exponents32 == 0..255

\* the inputs of floating_info
InfoSignificands == {0, 1, 2796202, 4194304, 8388607}

\* the inputs of ieee_16_info
Exponents16 == 0..31

InfoSignificands16 == {0, 1, 341, 512, 1023}

half(s, e, m) == s * 32768 + e * 1024 + m

BufLens == 1..MaxBufLen

(***************************************************************************)
(* The state: a caller that makes one call at a time.                      *)
(***************************************************************************)
VARIABLES pc, op, f32, f16, len, buf, written, ret

vars == <<pc, op, f32, f16, len, buf, written, ret>>

Init ==
  /\ pc = "idle"
  /\ op = "none"
  /\ f32 = floating(0, 0, 0)
  /\ f16 = 0
  /\ len = 0
  /\ buf = [i \in Mem |-> "?"]
  /\ written = {}
  /\ ret = 0

Call_as_ieee_16 ==
  /\ pc = "idle"
  /\ \E s \in Signs, e \in Exponents32, m \in Significands :
       /\ f32' = floating(s, e, m)
       /\ ret' = as_ieee_16(floating(s, e, m))
  /\ pc' = "done"
  /\ op' = "as_ieee_16"
  /\ UNCHANGED <<f16, len, buf, written>>

Call_floating_info ==
  /\ pc = "idle"
  /\ \E s \in Signs, e \in Exponents32, m \in InfoSignificands, n \in BufLens, fill \in Fills :
       \E stores \in {floating_info(floating(s, e, m), n)} :
         /\ f32' = floating(s, e, m)
         /\ len' = n
         /\ buf' = Apply([i \in Mem |-> fill], stores)
         /\ written' = Stored(stores)
  /\ pc' = "done"
  /\ op' = "floating_info"
  /\ UNCHANGED <<f16, ret>>

Call_ieee_16_info ==
  /\ pc = "idle"
  /\ \E s \in Signs, e \in Exponents16, m \in InfoSignificands16, n \in BufLens, fill \in Fills :
       \E stores \in {ieee_16_info(half(s, e, m), n)} :
         /\ f16' = half(s, e, m)
         /\ len' = n
         /\ buf' = Apply([i \in Mem |-> fill], stores)
         /\ written' = Stored(stores)
  /\ pc' = "done"
  /\ op' = "ieee_16_info"
  /\ UNCHANGED <<f32, ret>>

\* the call has returned and the caller is ready for the next one
Return ==
  /\ pc = "done"
  /\ pc' = "idle"
  /\ op' = "none"
  /\ f32' = floating(0, 0, 0)
  /\ f16' = 0
  /\ len' = 0
  /\ buf' = [i \in Mem |-> "?"]
  /\ written' = {}
  /\ ret' = 0

Next == Call_as_ieee_16 \/ Call_floating_info \/ Call_ieee_16_info \/ Return

Spec == Init /\ [][Next]_vars

(***************************************************************************)
(* The vocabulary of the properties: the fields of the input and of the    *)
(* result read off the bit patterns by arithmetic, and the IEEE-754        *)
(* reference rounding.                                                     *)
(***************************************************************************)
Returned(o) == pc = "done" /\ op = o

\* the fields of the binary32 input
Sign32 == f32.hi \div 32768
Exp32  == (f32.hi % 32768) \div 128
Man32  == (f32.hi % 128) * 65536 + f32.lo
IsNaN32 == Exp32 = 255 /\ Man32 # 0

\* the fields of the binary16 result of as_ieee_16
RetSign == ret \div 32768
RetExp  == (ret % 32768) \div 1024
RetMan  == ret % 1024

\* n / 2^sh rounded to the nearest integer, ties to the even one
RoundHalfEven(n, sh) ==
  LET q == n \div Pow2(sh)
      r == n % Pow2(sh)
      h == Pow2(sh - 1)
  IN  IF r > h \/ (r = h /\ q % 2 = 1) THEN q + 1 ELSE q

\* The magnitude bits (exponent and significand fields, 0..0x7C00) of the
\* binary16 value nearest to the binary32 value with exponent field e and
\* significand m, ties to even, for an input that is not a NaN.  The binary16
\* magnitudes are ordered as their bit patterns are, 0x7C00 being infinity.
Nearest16(e, m) ==
  IF e = 255 THEN 31744
  ELSE IF e = 0 THEN 0                      \* below 2^-126
  ELSE IF e - 127 >= -14
       THEN LET k == (e - 127 + 14) * 1024 + RoundHalfEven(8388608 + m, 13)
            IN  IF k >= 31744 THEN 31744 ELSE k
  ELSE IF e - 127 < -26 THEN 0              \* below a quarter of 2^-24
  ELSE RoundHalfEven(8388608 + m, 126 - e)  \* in units of 2^-24

\* the target exponent field e + 15 of the input
Exp16 == Exp32 - 112

InNormalRange == Exp32 # 0 /\ Exp16 >= 1 /\ Exp16 <= 31
InSubnormalRange == Exp32 # 0 /\ Exp16 <= 0 /\ Exp16 >= -9

\* candidate significand, round bit and sticky bits of an input in either range
Cand ==
  IF InNormalRange THEN Man32 \div 8192 ELSE (8388608 + Man32) \div Pow2(14 - Exp16)
RoundBit ==
  IF InNormalRange THEN (Man32 \div 4096) % 2
  ELSE ((8388608 + Man32) \div Pow2(13 - Exp16)) % 2
Sticky ==
  IF InNormalRange THEN Man32 % 4096 ELSE (8388608 + Man32) % Pow2(13 - Exp16)

(***************************************************************************)
(* as_ieee_16                                                              *)
(***************************************************************************)
\* C1: for every input that is not a NaN, as_ieee_16 returns the input's sign
\* bit and the magnitude of the nearest binary16 value, ties to even, with
\* infinity from the overflow threshold on.
C1_CorrectlyRounded ==
  (Returned("as_ieee_16") /\ ~IsNaN32)
    => ret = Sign32 * 32768 + Nearest16(Exp32, Man32)

\* C2: for every NaN input, as_ieee_16 returns a binary16 NaN: exponent field
\* 31, significand field 1, the input's sign bit.
C2_NaNToNaN ==
  (Returned("as_ieee_16") /\ IsNaN32)
    => (RetExp = 31 /\ RetMan = 1 /\ RetSign = Sign32)

\* C6: when the candidate significand is all ones and rounding up is
\* triggered, the increment carries into the exponent field: the result is
\* sign<<15 | (E+1)<<10 in the target-normal range (E in 1..30) and
\* sign<<15 | 0x0400 in the target-subnormal range.
C6_CarryIntoExponent ==
  (/\ Returned("as_ieee_16")
   /\ (InNormalRange /\ Exp16 <= 30) \/ InSubnormalRange
   /\ Cand = 1023
   /\ RoundBit = 1)
    => IF InNormalRange
       THEN ret = Sign32 * 32768 + (Exp16 + 1) * 1024
       ELSE ret = Sign32 * 32768 + 1024

C8_TiesToEven ==
  (Returned("as_ieee_16") /\ (InNormalRange \/ InSubnormalRange))
    => /\ RoundBit = 0 => RetMan = Cand % 1024
       /\ (RoundBit = 1 /\ Sticky # 0) => RetMan = (Cand + 1) % 1024
       /\ (RoundBit = 1 /\ Sticky = 0) =>
            /\ RetMan = (IF Cand % 2 = 0 THEN Cand ELSE Cand + 1) % 1024
            /\ RetMan % 2 = 0

C8_Witness ==
  /\ Returned("as_ieee_16")
  /\ InNormalRange
  /\ RoundBit = 1 /\ Sticky = 0
  /\ Cand = 3
  /\ RetMan = 4

\* the binary32 pattern of a normal binary16 pattern p
Widen(p) ==
  floating(p \div 32768, (p % 32768) \div 1024 + 112, (p % 1024) * 8192)

\* C9: an input that is exactly a normal binary16 value (unbiased exponent in
\* -14..15, low 13 significand bits zero) is returned unrounded as
\* sign<<15 | (e+15)<<10 | (m>>13), so that widening the result gives back the
\* input; 0.5 (0x3F000000) gives 0x3800.
C9_ExactRoundTrip ==
  (Returned("as_ieee_16") /\ Exp32 >= 113 /\ Exp32 <= 142 /\ Man32 % 8192 = 0)
    => /\ ret = Sign32 * 32768 + Exp16 * 1024 + Man32 \div 8192
       /\ Widen(ret) = f32
       /\ f32 = [hi |-> 16128, lo |-> 0] => ret = 14336

C9_Witness ==
  /\ Returned("as_ieee_16")
  /\ f32 = [hi |-> 16128, lo |-> 0]
  /\ ret = 14336

\* C10: for every input that is not a NaN the result is not a binary16 NaN
\* pattern, and every finite input with unbiased exponent 16 gives signed
\* infinity.
C10_NeverNaNFromNumber ==
  (Returned("as_ieee_16") /\ ~IsNaN32)
    => /\ ~(RetExp = 31 /\ RetMan # 0)
       /\ Exp32 = 143 => ret = Sign32 * 32768 + 31744

(***************************************************************************)
(* floating_info and ieee_16_info                                          *)
(***************************************************************************)
\* the caller's buffer
Buffer == 0..(len - 1)

\* the C string in buf: the characters before the first NUL
FirstNUL == CHOOSE i \in Mem : buf[i] = NUL /\ \A j \in 0..(i - 1) : buf[j] # NUL
Text == [i \in 1..FirstNUL |-> buf[i - 1]]

\* C3: for every buflen >= 1, floating_info stores only into buf[0..buflen-1]
\* and on return a NUL is in buf[0..buflen-1], subnormal inputs included.
C3_FloatingInfoTerminated ==
  Returned("floating_info")
    => /\ written \subseteq Buffer
       /\ \E i \in Buffer : buf[i] = NUL

\* C4: for every buflen >= 1, ieee_16_info stores only into buf[0..buflen-1]
\* and on return a NUL is in buf[0..buflen-1], subnormal and normal inputs
\* included.
C4_Ieee16InfoTerminated ==
  Returned("ieee_16_info")
    => /\ written \subseteq Buffer
       /\ \E i \in Buffer : buf[i] = NUL

RECURSIVE ParseBin(_)
\* the number a string of '0' and '1' writes, most significant bit first
ParseBin(t) ==
  IF t = <<>> THEN 0
  ELSE 2 * ParseBin(SubSeq(t, 1, Len(t) - 1)) + (IF t[Len(t)] = "1" THEN 1 ELSE 0)

DigitValue(c) == CHOOSE d \in 0..9 : DigitChar(d) = c

IsDigit(c) == \E d \in 0..9 : DigitChar(d) = c

RECURSIVE ParseNat(_)
ParseNat(t) ==
  IF t = <<>> THEN 0
  ELSE 10 * ParseNat(SubSeq(t, 1, Len(t) - 1)) + DigitValue(t[Len(t)])

\* t is a signed decimal as %d writes one: digits with no leading zero, after
\* a '-' exactly when the number is negative
IsDecimal(t) ==
  LET d == IF t # <<>> /\ t[1] = "-" THEN SubSeq(t, 2, Len(t)) ELSE t
  IN  /\ d # <<>>
      /\ \A i \in 1..Len(d) : IsDigit(d[i])
      /\ Len(d) > 1 => d[1] # "0"
      /\ (t[1] = "-") => d # <<"0">>

ParseDecimal(t) ==
  IF t[1] = "-" THEN 0 - ParseNat(SubSeq(t, 2, Len(t))) ELSE ParseNat(t)

\* t is <sign><lead>.<w significand bits of m> 2^<x>
IsNumberText(t, sgn, lead, w, m, x) ==
  /\ Len(t) > w + 6
  /\ t[1] = (IF sgn = 0 THEN "+" ELSE "-")
  /\ t[2] = lead
  /\ t[3] = "."
  /\ \A i \in 4..(w + 3) : t[i] \in {"0", "1"}
  /\ ParseBin(SubSeq(t, 4, w + 3)) = m
  /\ SubSeq(t, w + 4, w + 6) = <<" ", "2", "^">>
  /\ IsDecimal(SubSeq(t, w + 7, Len(t)))
  /\ ParseDecimal(SubSeq(t, w + 7, Len(t))) = x

\* the text of the class of sign s, exponent field e of maximum emax,
\* significand m of w bits, bias b
IsClassText(t, sgn, e, emax, m, w, b) ==
  IF e = 0 /\ m = 0 THEN t = <<IF sgn = 0 THEN "+" ELSE "-", "0">>
  ELSE IF e = emax /\ m = 0 THEN t = <<IF sgn = 0 THEN "+" ELSE "-", "I", "N", "F">>
  ELSE IF e = emax THEN t = <<"N", "a", "N">>
  ELSE IF e = 0 THEN IsNumberText(t, sgn, "0", w, m, 1 - b)
  ELSE IsNumberText(t, sgn, "1", w, m, e - b)

\* C5: with a buffer that holds the whole text (buflen >= 34 for
\* floating_info, >= 20 for ieee_16_info) the text is that of the class of the
\* input: "+0"/"-0", "+INF"/"-INF", "NaN", sign "0." bits " 2^-126" (" 2^-14")
\* for a subnormal, sign "1." bits " 2^" e-127 (e-15) otherwise; and 0.5 is
\* "+1." 23 zeros " 2^-1".
C5_TextOfClass ==
  /\ (Returned("floating_info") /\ len >= 34)
       => /\ IsClassText(Text, Sign32, Exp32, 255, Man32, 23, 127)
          /\ f32 = [hi |-> 16128, lo |-> 0]
               => Text = <<"+", "1", ".">> \o [i \in 1..23 |-> "0"] \o <<" ", "2", "^", "-", "1">>
  /\ (Returned("ieee_16_info") /\ len >= 20)
       => IsClassText(Text, f16 \div 32768, (f16 % 32768) \div 1024, 31, f16 % 1024, 10, 15)

C5_Witness ==
  /\ Returned("floating_info")
  /\ len = 34
  /\ Sign32 = 1 /\ Exp32 = 1 /\ Man32 = 2796202
  /\ Len(Text) = 33
  /\ SubSeq(Text, 27, 33) = <<" ", "2", "^", "-", "1", "2", "6">>

====
